---- MODULE Spec2Model ----
(***************************************************************************)
(* A model of the AI image style transformer: the Gemini service wrapper   *)
(* (generateImageFromImage, removeImageBackground), the ImageUploader      *)
(* component and the App component's handlers.                             *)
(*                                                                         *)
(* Text is a sequence of symbols.  A literal of the source is one symbol   *)
(* (the literal itself); text typed by the user is one symbol per          *)
(* character.  String concatenation (+=, +, template literals) is \o.      *)
(***************************************************************************)
EXTENDS Integers, Sequences, FiniteSets, TLC

VARIABLES
    svc,                    \* one activation of a geminiService function
    uploadedImage,          \* App useState, part_001:31
    generatedImage,         \* App useState, part_001:32
    isLoading,              \* App useState, part_001:33
    isRemovingBackground,   \* App useState, part_001:34
    error,                  \* App useState, part_001:35
    selectedStyle,          \* App useState, part_001:36
    uploaderError,          \* ImageUploader useState, ImageUploader.tsx:11
    isDragging,             \* ImageUploader useState, ImageUploader.tsx:10
    calls,                  \* handler activations suspended at an await
    consoleOut              \* what the last step wrote with console.error

appVars == <<uploadedImage, generatedImage, isLoading, isRemovingBackground,
             error, selectedStyle, uploaderError, isDragging, calls, consoleOut>>
vars == <<svc, uploadedImage, generatedImage, isLoading, isRemovingBackground,
          error, selectedStyle, uploaderError, isDragging, calls, consoleOut>>

\* JavaScript null.
Null == [null |-> TRUE]

(***************************************************************************)
(* Bounds of the model.                                                    *)
(***************************************************************************)
\* Longest character / scene description typed by the user.
MaxTextLen == 2
\* Longest list of parts in a simulated response.
MaxParts == 3
\* Most "bg_removed_" prefixes a file name carries.
MaxBgRemoved == 2

\* The range of the influence slider.
InfluenceMin == 0
InfluenceMax == 100

(***************************************************************************)
(* Text.                                                                   *)
(***************************************************************************)
\* The characters a user types: a blank, a letter and a double quote.
Chars == {" ", "a", "\""}
Whitespace == {" "}

UserTexts == UNION {[1..n -> Chars] : n \in 0..MaxTextLen}

\* String.prototype.trim: strips leading and trailing whitespace.
RECURSIVE TrimStart(_)
TrimStart(s) ==
    IF s # <<>> /\ Head(s) \in Whitespace THEN TrimStart(Tail(s)) ELSE s

RECURSIVE TrimEnd(_)
TrimEnd(s) ==
    IF s # <<>> /\ s[Len(s)] \in Whitespace
    THEN TrimEnd(SubSeq(s, 1, Len(s) - 1))
    ELSE s

trim(s) == TrimEnd(TrimStart(s))

\* A string in a condition: the empty string is falsy, any other is truthy.
Truthy(s) == s # <<>>

(***************************************************************************)
(* constants: styleOptions.                                                *)
(***************************************************************************)
styleOptions == <<
    [id |-> "business-professional",
     prompt |-> <<"Transform the person in the image to be wearing professional business attire, suitable for an office or corporate setting. Keep the original face and background mostly intact.">>],
    [id |-> "evening-gown",
     prompt |-> <<"Redress the person in the image in an elegant evening gown or a formal suit. The setting should look like a gala or a formal event. Preserve the original facial features.">>],
    [id |-> "cyberpunk",
     prompt |-> <<"Reimagine the person in the image as a cyberpunk character. Add futuristic clothing, neon lighting effects, and subtle cybernetic enhancements, but keep the person recognizable.">>],
    [id |-> "fantasy-adventurer",
     prompt |-> <<"Change the person's clothing into that of a fantasy adventurer (like a ranger or a mage). Add a fitting, magical, or natural background while maintaining the person's face.">>]
>>

StyleIds == {styleOptions[i].id : i \in DOMAIN styleOptions}

\* styleOptions.find(opt => opt.id === id): the first match, or Null.
RECURSIVE FindFrom(_, _)
FindFrom(id, i) ==
    IF i > Len(styleOptions) THEN Null
    ELSE IF styleOptions[i].id = id THEN styleOptions[i]
    ELSE FindFrom(id, i + 1)

FindStyle(id) == FindFrom(id, 1)

(***************************************************************************)
(* geminiService: the prompt of generateImageFromImage.                    *)
(***************************************************************************)
CharacterOpen == " The character should also be described as: \""
SceneOpen == " The scene and action should be: \""
QuoteClose == "\"."

AdhereClosely == " The overall style, clothing, and background should adhere closely to the descriptions provided."
StrongReference == " Use the descriptions as a strong reference, but allow for some artistic stylization in the clothing and background."
LooseInspiration == " Use the descriptions as a loose inspiration for the style, clothing, and background, allowing for significant creative interpretation."

HighQuality == " Generate the final image in high definition (HD) with photorealistic details, aiming for a resolution between 2K and 4K."
StandardQuality == " Generate the final image in a standard definition, suitable for web display, around 720p resolution."

facePreservationInstruction == <<" It is absolutely critical to preserve the person's face from the original image perfectly. Do not alter the facial features, structure, or identity in any way.">>

\* Faulty variant: the descriptions are embedded trimmed.
fullPromptTrimmed(basePrompt, characterDescription, sceneDescription) ==
    LET withCharacter ==
            IF Truthy(trim(characterDescription))
            THEN basePrompt \o <<CharacterOpen>> \o trim(characterDescription) \o <<QuoteClose>>
            ELSE basePrompt
    IN  IF Truthy(trim(sceneDescription))
        THEN withCharacter \o <<SceneOpen>> \o trim(sceneDescription) \o <<QuoteClose>>
        ELSE withCharacter

fullPrompt(basePrompt, characterDescription, sceneDescription) ==
    LET withCharacter ==
            IF Truthy(trim(characterDescription))
            THEN basePrompt \o <<CharacterOpen>> \o characterDescription \o <<QuoteClose>>
            ELSE basePrompt
    IN  IF Truthy(trim(sceneDescription))
        THEN withCharacter \o <<SceneOpen>> \o sceneDescription \o <<QuoteClose>>
        ELSE withCharacter

\* Faulty variant: the upper threshold is inclusive.
influencePromptInclusive(influence) ==
    IF influence >= 70 THEN <<AdhereClosely>>
    ELSE IF influence > 30 THEN <<StrongReference>>
    ELSE <<LooseInspiration>>

influencePrompt(influence) ==
    IF influence > 70 THEN <<AdhereClosely>>
    ELSE IF influence > 30 THEN <<StrongReference>>
    ELSE <<LooseInspiration>>

\* Faulty variant: the selector is compared without regard to case.
qualityPromptAnyCase(outputQuality) ==
    IF outputQuality \in {"high", "High", "HIGH"} THEN <<HighQuality>>
    ELSE <<StandardQuality>>

qualityPrompt(outputQuality) ==
    IF outputQuality = "high" THEN <<HighQuality>> ELSE <<StandardQuality>>

\* Faulty variant: the quality clause is put before the face-preservation clause.
finalPromptQualityFirst(basePrompt, influence, characterDescription, sceneDescription, outputQuality) ==
    fullPrompt(basePrompt, characterDescription, sceneDescription)
        \o influencePrompt(influence)
        \o qualityPrompt(outputQuality)
        \o facePreservationInstruction

finalPrompt(basePrompt, influence, characterDescription, sceneDescription, outputQuality) ==
    fullPrompt(basePrompt, characterDescription, sceneDescription)
        \o influencePrompt(influence)
        \o facePreservationInstruction
        \o qualityPrompt(outputQuality)

removeBackgroundPrompt == <<"Remove the background from the image, making it transparent. The main subject should be perfectly preserved. Output a PNG with a transparent background.">>

(***************************************************************************)
(* geminiService: the request and the response.                            *)
(***************************************************************************)
\* The argument of ai.models.generateContent.
GenerateContentRequest(base64ImageData, mimeType, text) ==
    [model |-> "gemini-2.5-flash-image",
     parts |-> <<[inlineData |-> [data |-> base64ImageData, mimeType |-> mimeType]],
                 [text |-> text]>>,
     responseModalities |-> <<"IMAGE">>]

\* The base64 text of some bytes, and text that is no base64 at all.
Base64(bytes) == <<"base64", bytes>>
NotBase64 == <<"not-base64">>
IsBase64(data) == Len(data) = 2 /\ data[1] = "base64"
Base64Decode(data) == data[2]

\* What the remote model answers with.
RemoteData == {Base64("r1"), Base64("r2"), NotBase64}
TextPart == [text |-> "Here is your image."]
ImagePart(data) == [inlineData |-> [data |-> data, mimeType |-> "image/png"]]
Parts == {TextPart} \cup {ImagePart(d) : d \in RemoteData}
PartLists == UNION {[1..n -> Parts] : n \in 0..MaxParts}

\* A transport outcome: the promise rejects, or resolves with a response
\* whose candidates list is empty or holds one candidate.
TransportErrors == {"401 API key not valid", "429 quota exceeded"}
Rejections == {[rejected |-> e] : e \in TransportErrors}
ResponseOf(parts) == [candidates |-> <<[content |-> [parts |-> parts]]>>]
NoCandidates == [candidates |-> <<>>]
Responses == {NoCandidates} \cup {ResponseOf(p) : p \in PartLists}
Outcomes == Rejections \cup Responses

HasInlineData(part) == "inlineData" \in DOMAIN part

Return(data) == [kind |-> "return", data |-> data]
Throw(message) == [kind |-> "throw", message |-> message]

NoImageGenerate == "No image data found in the Gemini API response."
NoImageRemove == "No image data found in the Gemini API response for background removal."
FailedGenerate == "Failed to generate image. Please check the console for more details."
FailedRemove == "Failed to remove background. Please check the console for more details."
TypeErrorNoCandidate == "TypeError: Cannot read properties of undefined (reading 'content')"

\* Faulty variant: the last part carrying inline data wins.
RECURSIVE ScanPartsLast(_, _, _)
ScanPartsLast(parts, i, noImage) ==
    IF i > Len(parts) THEN Throw(noImage)
    ELSE LET rest == ScanPartsLast(parts, i + 1, noImage)
         IN  IF rest.kind = "return" THEN rest
             ELSE IF HasInlineData(parts[i]) THEN Return(parts[i].inlineData.data)
             ELSE rest

\* for (const part of parts) { if (part.inlineData) return part.inlineData.data }
\* throw new Error(noImage)
RECURSIVE ScanParts(_, _, _)
ScanParts(parts, i, noImage) ==
    IF i > Len(parts) THEN Throw(noImage)
    ELSE IF HasInlineData(parts[i]) THEN Return(parts[i].inlineData.data)
    ELSE ScanParts(parts, i + 1, noImage)

\* The body of the try block from the point the awaited call settles.
TryBody(outcome, noImage) ==
    IF "rejected" \in DOMAIN outcome THEN Throw(outcome.rejected)
    ELSE IF Len(outcome.candidates) = 0 THEN Throw(TypeErrorNoCandidate)
    ELSE ScanParts(outcome.candidates[1].content.parts, 1, noImage)

\* catch (error) { console.error(label, error); throw new Error(failed) }
\* The result carries what was logged beside what the caller gets.
Catch(tried, label, failed) ==
    IF tried.kind = "throw"
    THEN [kind |-> "throw", message |-> failed, logged |-> <<<<label, tried.message>>>>]
    ELSE [kind |-> "return", data |-> tried.data, logged |-> <<>>]

generateImageFromImageSettle(outcome) ==
    Catch(TryBody(outcome, NoImageGenerate), "Error calling Gemini API:", FailedGenerate)

removeImageBackgroundSettle(outcome) ==
    Catch(TryBody(outcome, NoImageRemove),
          "Error calling Gemini API for background removal:", FailedRemove)

(***************************************************************************)
(* One activation of a service function: called, awaiting the remote call, *)
(* settled.                                                                *)
(***************************************************************************)
QualitySelectors == {"high", "High", "standard", ""}
BasePrompts == {styleOptions[i].prompt : i \in {1, 3}}

TransformArgs(images, mimes, bases, influences, texts, qualities) ==
    [op : {"transform"}, base64ImageData : images, mimeType : mimes,
     basePrompt : bases, influence : influences,
     characterDescription : texts, sceneDescription : texts,
     outputQuality : qualities]

RemoveArgs(images, mimes) ==
    [op : {"removeBackground"}, base64ImageData : images, mimeType : mimes]

SvcIdle == [pc |-> "idle"]
SvcCalled(args) == [pc |-> "called", args |-> args]

\* The synchronous part of the function, up to its await.
ServiceSend ==
    /\ svc.pc = "called"
    /\ LET a == svc.args
           text == IF a.op = "transform"
                   THEN finalPrompt(a.basePrompt, a.influence, a.characterDescription,
                                    a.sceneDescription, a.outputQuality)
                   ELSE removeBackgroundPrompt
       IN  svc' = [pc |-> "awaiting", args |-> a,
                   request |-> GenerateContentRequest(a.base64ImageData, a.mimeType, text)]
    /\ UNCHANGED appVars

\* The awaited call settles and the function returns or throws.
ServiceSettle(outcome) ==
    /\ svc.pc = "awaiting"
    /\ svc' = [pc |-> "settled", args |-> svc.args, request |-> svc.request,
               outcome |-> outcome,
               result |-> IF svc.args.op = "transform"
                          THEN generateImageFromImageSettle(outcome)
                          ELSE removeImageBackgroundSettle(outcome)]
    /\ UNCHANGED appVars

AppInit ==
    /\ uploadedImage = Null
    /\ generatedImage = Null
    /\ isLoading = FALSE
    /\ isRemovingBackground = FALSE
    /\ error = Null
    /\ selectedStyle = ""
    /\ uploaderError = Null
    /\ isDragging = FALSE
    /\ calls = <<>>
    /\ consoleOut = <<>>

\* The prompt composer over all its inputs.
InitCompose ==
    /\ \E a \in TransformArgs({Base64("u1")}, {"image/jpeg"}, BasePrompts,
                              InfluenceMin..InfluenceMax, UserTexts,
                              QualitySelectors) :
          svc = SvcCalled(a)
    /\ AppInit

NextCompose == ServiceSend

SpecCompose == InitCompose /\ [][NextCompose]_vars

\* Both service functions over all transport outcomes.
InitClient ==
    /\ \E a \in TransformArgs({Base64("u1"), Base64("u2")},
                              {"image/jpeg", "image/png"},
                              {styleOptions[3].prompt}, {75}, {<<>>}, {"standard"})
                \cup RemoveArgs({Base64("u1"), Base64("u2")},
                                {"image/jpeg", "image/png"}) :
          svc = SvcCalled(a)
    /\ AppInit

NextClient ==
    \/ ServiceSend
    \/ \E outcome \in Outcomes : ServiceSettle(outcome)

SpecClient == InitClient /\ [][NextClient]_vars

(***************************************************************************)
(* Properties of the service functions.                                    *)
(***************************************************************************)
Settled == svc.pc = "settled"
Answered == Settled /\ "candidates" \in DOMAIN svc.outcome /\ svc.outcome.candidates # <<>>
AnsweredParts == svc.outcome.candidates[1].content.parts
NoImagePart == \A i \in DOMAIN AnsweredParts : ~HasInlineData(AnsweredParts[i])

NoImageMessage(op) == IF op = "transform" THEN NoImageGenerate ELSE NoImageRemove
GenerationFailedMessage(op) == IF op = "transform" THEN FailedGenerate ELSE FailedRemove

\* C1: when no part of the response carries inline image data, the function
\* fails with the no-image error, which differs from the error it fails with
\* on a transport error, and it returns no bytes.
C1_NoImageInResponse ==
    (Answered /\ NoImagePart) =>
        /\ svc.result.kind = "throw"
        /\ svc.result.message = NoImageMessage(svc.args.op)
        /\ svc.result.message # GenerationFailedMessage(svc.args.op)

\* C2: when some part carries inline image data, the function returns the
\* data of the lowest-indexed such part.
C2_FirstImagePartWins ==
    (Answered /\ ~NoImagePart) =>
        \E i \in DOMAIN AnsweredParts :
            /\ HasInlineData(AnsweredParts[i])
            /\ \A j \in 1..(i - 1) : ~HasInlineData(AnsweredParts[j])
            /\ svc.result.kind = "return"
            /\ svc.result.data = AnsweredParts[i].inlineData.data

\* The image is in the second part only of the first two, a different image
\* follows it, and the second part's data is returned.
C2_Witness ==
    /\ Answered
    /\ svc.args.op = "removeBackground"
    /\ AnsweredParts = <<TextPart, ImagePart(Base64("r2")), ImagePart(Base64("r1"))>>
    /\ svc.result = [kind |-> "return", data |-> Base64("r2"), logged |-> <<>>]

(***************************************************************************)
(* Properties of the prompt.                                               *)
(***************************************************************************)
Sent == svc.pc = "awaiting" /\ svc.args.op = "transform"
PromptSent == svc.request.parts[2].text

Occurrences(symbol, text) == Cardinality({i \in DOMAIN text : text[i] = symbol})
IsBlank(text) == \A i \in DOMAIN text : text[i] \in Whitespace

InfluenceClauses == {AdhereClosely, StrongReference, LooseInspiration}
QualityClauses == {HighQuality, StandardQuality}

QuotedClause(open, text) ==
    IF IsBlank(text) THEN <<>> ELSE <<open>> \o text \o <<QuoteClose>>

\* C5: the prompt is the base text, the character clause if present, the
\* scene clause if present, one influence clause, the face-preservation
\* clause and one quality clause, in this order; the face-preservation
\* clause is in every prompt.
C5_PromptOrder ==
    Sent =>
        /\ \E influenceClause \in InfluenceClauses, qualityClause \in QualityClauses :
              PromptSent = svc.args.basePrompt
                            \o QuotedClause(CharacterOpen, svc.args.characterDescription)
                            \o QuotedClause(SceneOpen, svc.args.sceneDescription)
                            \o <<influenceClause>>
                            \o facePreservationInstruction
                            \o <<qualityClause>>
        /\ Occurrences(facePreservationInstruction[1], PromptSent) = 1

\* influence 85, a character, no scene, quality "high".
C5_Witness ==
    /\ Sent
    /\ svc.args.influence = 85
    /\ svc.args.characterDescription = <<"a">>
    /\ svc.args.sceneDescription = <<>>
    /\ svc.args.outputQuality = "high"
    /\ PromptSent = svc.args.basePrompt
                     \o <<CharacterOpen, "a", QuoteClose, AdhereClosely>>
                     \o facePreservationInstruction
                     \o <<HighQuality>>

\* C6: every influence in 0..100 selects exactly one influence clause:
\* above 70 adhere closely, above 30 up to 70 strong reference, up to 30
\* loose inspiration.
C6_InfluenceBands ==
    Sent =>
        LET n(clause) == Occurrences(clause, PromptSent)
            influence == svc.args.influence
        IN  /\ n(AdhereClosely) + n(StrongReference) + n(LooseInspiration) = 1
            /\ influence > 70 => n(AdhereClosely) = 1
            /\ (30 < influence /\ influence <= 70) => n(StrongReference) = 1
            /\ influence <= 30 => n(LooseInspiration) = 1

\* influence 70 is in the strong-reference band.
C6_Witness ==
    /\ Sent
    /\ svc.args.influence = 70
    /\ Occurrences(StrongReference, PromptSent) = 1

\* The clause opened by `open` is in the prompt with `text` between its quotes.
HasQuoted(open, text) ==
    \E i \in DOMAIN PromptSent :
        /\ PromptSent[i] = open
        /\ i + Len(text) + 1 <= Len(PromptSent)
        /\ SubSeq(PromptSent, i + 1, i + Len(text)) = text
        /\ PromptSent[i + Len(text) + 1] = QuoteClose

\* C7: a blank character (scene) text gives no character (scene) clause; a
\* non-blank one gives the clause with the text verbatim between double
\* quotes.
C7_BlankAndVerbatim ==
    Sent =>
        LET character == svc.args.characterDescription
            scene == svc.args.sceneDescription
        IN  /\ IsBlank(character) => Occurrences(CharacterOpen, PromptSent) = 0
            /\ ~IsBlank(character) =>
                  /\ Occurrences(CharacterOpen, PromptSent) = 1
                  /\ HasQuoted(CharacterOpen, character)
            /\ IsBlank(scene) => Occurrences(SceneOpen, PromptSent) = 0
            /\ ~IsBlank(scene) =>
                  /\ Occurrences(SceneOpen, PromptSent) = 1
                  /\ HasQuoted(SceneOpen, scene)

\* A character text with a leading blank and a double quote is embedded as
\* typed, and a scene of two blanks gives no clause.
C7_Witness ==
    /\ Sent
    /\ svc.args.characterDescription = <<" ", "\"">>
    /\ svc.args.sceneDescription = <<" ", " ">>
    /\ HasQuoted(CharacterOpen, <<" ", "\"">>)
    /\ Occurrences(SceneOpen, PromptSent) = 0

\* C8: exactly one quality clause is in the prompt, and it is the HD clause
\* only for the selector "high".
C8_QualityDefault ==
    Sent =>
        /\ Occurrences(HighQuality, PromptSent) + Occurrences(StandardQuality, PromptSent) = 1
        /\ Occurrences(HighQuality, PromptSent) = 1 <=> svc.args.outputQuality = "high"

\* The selector "High" gets the standard clause.
C8_Witness ==
    /\ Sent
    /\ svc.args.outputQuality = "High"
    /\ Occurrences(StandardQuality, PromptSent) = 1

(***************************************************************************)
(* Files, and the conversions between files and base64 text.               *)
(***************************************************************************)
File(name, type, bytes) == [name |-> name, type |-> type, bytes |-> bytes]

\* The files a user offers: of a supported type or not.
OfferedTypes == {"image/jpeg", "image/png", "image/gif", ""}
OfferedBytes == {"u1", "u2"}
OfferedFiles == {File(<<"photo">>, t, b) : t \in OfferedTypes, b \in OfferedBytes}
\* e.dataTransfer.files / e.target.files: no file, or the file taken.
FileLists == {<<>>} \cup {<<f>> : f \in OfferedFiles}

\* reader.readAsDataURL(file): "data:<type>;base64,<text>", held here as its
\* pieces around the comma.
readAsDataURL(file) == <<"data:" \o file.type \o ";base64", Base64(file.bytes)>>

\* fileToBase64 when the reader loads: reader.result.split(',')[1].
fileToBase64(file) == readAsDataURL(file)[2]

\* What fileToBase64 rejects with: the reader's error event, no Error object.
ReaderErrorEvent == "ProgressEvent error"

\* base64ToFile: fetch of the data URL decodes the text, or fails on text
\* that is no base64.
FetchTypeError == "TypeError: Failed to fetch"
base64ToFile(base64, filename) ==
    IF IsBase64(base64)
    THEN Return(File(filename, "image/png", Base64Decode(base64)))
    ELSE Throw(FetchTypeError)

BgRemovedCount(file) == Len(file.name) - 1

(***************************************************************************)
(* ImageUploader.                                                          *)
(***************************************************************************)
validTypes == <<"image/jpeg", "image/png">>
includes(list, x) == \E i \in DOMAIN list : list[i] = x

InvalidFileType == [message |-> "Invalid file type. Please upload a JPG or PNG file."]

\* Faulty variant: every image/* type passes.
handleFileValidationAnyImage(file) ==
    IF ~includes(validTypes \o <<"image/gif">>, file.type)
    THEN [valid |-> FALSE, error |-> InvalidFileType]
    ELSE [valid |-> TRUE, error |-> Null]

\* The value returned and the value given to setError.
handleFileValidation(file) ==
    IF ~includes(validTypes, file.type)
    THEN [valid |-> FALSE, error |-> InvalidFileType]
    ELSE [valid |-> TRUE, error |-> Null]

\* App.handleImageUpload, the uploader's onImageUpload.
handleImageUpload(file) ==
    /\ uploadedImage' = file
    /\ generatedImage' = Null
    /\ error' = Null

handleFileChange(file) ==
    LET checked == handleFileValidation(file)
    IN  /\ uploaderError' = checked.error
        /\ IF checked.valid
           THEN handleImageUpload(file)
           ELSE UNCHANGED <<uploadedImage, generatedImage, error>>

handleDragEnter ==
    /\ isDragging' = TRUE
    /\ consoleOut' = <<>>
    /\ UNCHANGED <<svc, uploadedImage, generatedImage, isLoading, isRemovingBackground,
                   error, selectedStyle, uploaderError, calls>>

handleDragLeave ==
    /\ isDragging' = FALSE
    /\ consoleOut' = <<>>
    /\ UNCHANGED <<svc, uploadedImage, generatedImage, isLoading, isRemovingBackground,
                   error, selectedStyle, uploaderError, calls>>

handleDrop(files) ==
    /\ isDragging' = FALSE
    /\ IF Len(files) > 0
       THEN handleFileChange(files[1])
       ELSE UNCHANGED <<uploadedImage, generatedImage, error, uploaderError>>
    /\ consoleOut' = <<>>
    /\ UNCHANGED <<svc, isLoading, isRemovingBackground, selectedStyle, calls>>

onInputChange(files) ==
    /\ IF Len(files) > 0
       THEN handleFileChange(files[1])
       ELSE UNCHANGED <<uploadedImage, generatedImage, error, uploaderError>>
    /\ consoleOut' = <<>>
    /\ UNCHANGED <<svc, isLoading, isRemovingBackground, selectedStyle, isDragging, calls>>

(***************************************************************************)
(* App.                                                                    *)
(*                                                                         *)
(* A handler runs to its first await in the step of the click; each later  *)
(* step is the continuation after one awaited promise settles.  A call     *)
(* record is the suspended activation: the await it is at and the values   *)
(* of the render it closed over.  The reference influence, the two         *)
(* descriptions and the output quality reach only the text of the request  *)
(* (see ServiceSend); they are not part of this state.                     *)
(***************************************************************************)
\* The style select's onChange.
setSelectedStyle(id) ==
    /\ selectedStyle' = id
    /\ consoleOut' = <<>>
    /\ UNCHANGED <<svc, uploadedImage, generatedImage, isLoading, isRemovingBackground,
                   error, uploaderError, isDragging, calls>>

\* Faulty variant: the button ignores a generation in flight.
RemoveBackgroundDisabledNotLoading ==
    uploadedImage = Null \/ isRemovingBackground

\* disabled= of the Background Removal button.
RemoveBackgroundDisabled ==
    uploadedImage = Null \/ isLoading \/ isRemovingBackground

\* disabled= of the Generate Image button.
GenerateDisabled ==
    uploadedImage = Null \/ selectedStyle = "" \/ isLoading \/ isRemovingBackground

RemoveAt(list, i) == SubSeq(list, 1, i - 1) \o SubSeq(list, i + 1, Len(list))

\* err instanceof Error ? err.message : unknown
ErrorMessage(thrown, unknown) ==
    IF thrown = ReaderErrorEvent THEN unknown ELSE thrown

UnknownRemove == "An unknown error occurred during background removal."
UnknownGenerate == "An unknown error occurred during image generation."

handleRemoveBackgroundClick ==
    /\ ~RemoveBackgroundDisabled
    /\ uploadedImage # Null => BgRemovedCount(uploadedImage) < MaxBgRemoved
    /\ IF uploadedImage = Null
       THEN /\ error' = [message |-> "Please upload an image first."]
            /\ UNCHANGED <<isRemovingBackground, calls>>
       ELSE /\ isRemovingBackground' = TRUE
            /\ error' = Null
            /\ calls' = Append(calls, [handler |-> "removeBackground",
                                       awaiting |-> "fileToBase64",
                                       uploadedImage |-> uploadedImage])
    /\ consoleOut' = <<>>
    /\ UNCHANGED <<svc, uploadedImage, generatedImage, isLoading, selectedStyle,
                   uploaderError, isDragging>>

\* Faulty variant: the finally block is missing.
RemoveBackgroundCatchNoFinally(i, thrown, logged) ==
    /\ consoleOut' = logged \o << <<thrown>> >>
    /\ error' = [message |-> ErrorMessage(thrown, UnknownRemove)]
    /\ calls' = RemoveAt(calls, i)
    /\ UNCHANGED <<svc, uploadedImage, generatedImage, isLoading, isRemovingBackground,
                   selectedStyle, uploaderError, isDragging>>

\* Faulty variant: a failure also discards the uploaded image.
RemoveBackgroundCatchDropsImage(i, thrown, logged) ==
    /\ consoleOut' = logged \o << <<thrown>> >>
    /\ error' = [message |-> ErrorMessage(thrown, UnknownRemove)]
    /\ isRemovingBackground' = FALSE
    /\ uploadedImage' = Null
    /\ calls' = RemoveAt(calls, i)
    /\ UNCHANGED <<svc, generatedImage, isLoading, selectedStyle,
                   uploaderError, isDragging>>

\* catch (err) { console.error(err); setError(...) } finally { setIsRemovingBackground(false) }
RemoveBackgroundCatch(i, thrown, logged) ==
    /\ consoleOut' = logged \o << <<thrown>> >>
    /\ error' = [message |-> ErrorMessage(thrown, UnknownRemove)]
    /\ isRemovingBackground' = FALSE
    /\ calls' = RemoveAt(calls, i)
    /\ UNCHANGED <<svc, uploadedImage, generatedImage, isLoading, selectedStyle,
                   uploaderError, isDragging>>

AtAwait(i, handler, awaited) ==
    /\ i \in DOMAIN calls
    /\ calls[i].handler = handler
    /\ calls[i].awaiting = awaited

\* fileToBase64 resolves: removeImageBackground is called and awaited.
RemoveBackgroundRead(i) ==
    /\ AtAwait(i, "removeBackground", "fileToBase64")
    /\ calls' = [calls EXCEPT ![i] =
                    [handler |-> "removeBackground",
                     awaiting |-> "removeImageBackground",
                     uploadedImage |-> @.uploadedImage,
                     base64ImageData |-> fileToBase64(@.uploadedImage),
                     mimeType |-> @.uploadedImage.type]]
    /\ consoleOut' = <<>>
    /\ UNCHANGED <<svc, uploadedImage, generatedImage, isLoading, isRemovingBackground,
                   error, selectedStyle, uploaderError, isDragging>>

\* fileToBase64 rejects.
RemoveBackgroundReadFails(i) ==
    /\ AtAwait(i, "removeBackground", "fileToBase64")
    /\ RemoveBackgroundCatch(i, ReaderErrorEvent, <<>>)

\* removeImageBackground settles: base64ToFile is called and awaited, or the
\* error is caught.
RemoveBackgroundSettle(i, outcome) ==
    /\ AtAwait(i, "removeBackground", "removeImageBackground")
    /\ LET settled == removeImageBackgroundSettle(outcome)
       IN  IF settled.kind = "return"
           THEN /\ calls' = [calls EXCEPT ![i] =
                               [handler |-> "removeBackground",
                                awaiting |-> "base64ToFile",
                                uploadedImage |-> @.uploadedImage,
                                processedData |-> settled.data]]
                /\ consoleOut' = settled.logged
                /\ UNCHANGED <<svc, uploadedImage, generatedImage, isLoading,
                               isRemovingBackground, error, selectedStyle,
                               uploaderError, isDragging>>
           ELSE RemoveBackgroundCatch(i, settled.message, settled.logged)

\* base64ToFile settles: the new file becomes the uploaded image, or the
\* error is caught.
RemoveBackgroundConvert(i) ==
    /\ AtAwait(i, "removeBackground", "base64ToFile")
    /\ LET newImageFile == base64ToFile(calls[i].processedData,
                                        <<"bg_removed_">> \o calls[i].uploadedImage.name)
       IN  IF newImageFile.kind = "return"
           THEN /\ uploadedImage' = newImageFile.data
                /\ isRemovingBackground' = FALSE
                /\ calls' = RemoveAt(calls, i)
                /\ consoleOut' = <<>>
                /\ UNCHANGED <<svc, generatedImage, isLoading, error, selectedStyle,
                               uploaderError, isDragging>>
           ELSE RemoveBackgroundCatch(i, newImageFile.message, <<>>)

handleGenerateClick ==
    /\ ~GenerateDisabled
    /\ IF uploadedImage = Null \/ selectedStyle = ""
       THEN /\ error' = [message |-> "Please upload an image and select a style."]
            /\ UNCHANGED <<isLoading, generatedImage, calls>>
       ELSE /\ isLoading' = TRUE
            /\ error' = Null
            /\ generatedImage' = Null
            /\ calls' = Append(calls, [handler |-> "generate",
                                       awaiting |-> "fileToBase64",
                                       uploadedImage |-> uploadedImage,
                                       selectedStyle |-> selectedStyle])
    /\ consoleOut' = <<>>
    /\ UNCHANGED <<svc, uploadedImage, isRemovingBackground, selectedStyle,
                   uploaderError, isDragging>>

\* catch (err) { console.error(err); setError(...) } finally { setIsLoading(false) }
GenerateCatch(i, thrown, logged) ==
    /\ consoleOut' = logged \o << <<thrown>> >>
    /\ error' = [message |-> ErrorMessage(thrown, UnknownGenerate)]
    /\ isLoading' = FALSE
    /\ calls' = RemoveAt(calls, i)
    /\ UNCHANGED <<svc, uploadedImage, generatedImage, isRemovingBackground,
                   selectedStyle, uploaderError, isDragging>>

\* fileToBase64 resolves: the style is looked up, generateImageFromImage is
\* called and awaited.
GenerateRead(i) ==
    /\ AtAwait(i, "generate", "fileToBase64")
    /\ LET style == FindStyle(calls[i].selectedStyle)
       IN  IF style = Null
           THEN GenerateCatch(i, "Invalid style selected.", <<>>)
           ELSE /\ calls' = [calls EXCEPT ![i] =
                               [handler |-> "generate",
                                awaiting |-> "generateImageFromImage",
                                uploadedImage |-> @.uploadedImage,
                                selectedStyle |-> @.selectedStyle,
                                base64ImageData |-> fileToBase64(@.uploadedImage),
                                mimeType |-> @.uploadedImage.type,
                                basePrompt |-> style.prompt]]
                /\ consoleOut' = <<>>
                /\ UNCHANGED <<svc, uploadedImage, generatedImage, isLoading,
                               isRemovingBackground, error, selectedStyle,
                               uploaderError, isDragging>>

\* fileToBase64 rejects.
GenerateReadFails(i) ==
    /\ AtAwait(i, "generate", "fileToBase64")
    /\ GenerateCatch(i, ReaderErrorEvent, <<>>)

\* generateImageFromImage settles: the image is shown, or the error is caught.
GenerateSettle(i, outcome) ==
    /\ AtAwait(i, "generate", "generateImageFromImage")
    /\ LET settled == generateImageFromImageSettle(outcome)
       IN  IF settled.kind = "return"
           THEN /\ generatedImage' = [src |-> <<"data:image/png;base64,">> \o settled.data]
                /\ isLoading' = FALSE
                /\ calls' = RemoveAt(calls, i)
                /\ consoleOut' = settled.logged
                /\ UNCHANGED <<svc, uploadedImage, isRemovingBackground, error,
                               selectedStyle, uploaderError, isDragging>>
           ELSE GenerateCatch(i, settled.message, settled.logged)

\* The transport outcomes the handlers are run against: one for each way
\* a service function settles (every rejection, no candidate, no part, a
\* text part alone, and each image after a text part).
AppOutcomes ==
    Rejections
        \cup {NoCandidates, ResponseOf(<<>>), ResponseOf(<<TextPart>>)}
        \cup {ResponseOf(<<TextPart, ImagePart(d)>>) : d \in RemoteData}

Init ==
    /\ svc = SvcIdle
    /\ AppInit

\* A step of the user.
UserStep ==
    \/ handleDragEnter
    \/ handleDragLeave
    \/ \E files \in FileLists : handleDrop(files)
    \/ \E files \in FileLists : onInputChange(files)
    \/ \E id \in StyleIds : setSelectedStyle(id)
    \/ handleRemoveBackgroundClick
    \/ handleGenerateClick

\* An awaited promise settles and its handler continues.
Continue ==
    \/ \E i \in DOMAIN calls : RemoveBackgroundRead(i)
    \/ \E i \in DOMAIN calls : RemoveBackgroundReadFails(i)
    \/ \E i \in DOMAIN calls, outcome \in AppOutcomes : RemoveBackgroundSettle(i, outcome)
    \/ \E i \in DOMAIN calls : RemoveBackgroundConvert(i)
    \/ \E i \in DOMAIN calls : GenerateRead(i)
    \/ \E i \in DOMAIN calls : GenerateReadFails(i)
    \/ \E i \in DOMAIN calls, outcome \in AppOutcomes : GenerateSettle(i, outcome)

Next == UserStep \/ Continue

Spec == Init /\ [][Next]_vars

\* Every awaited promise settles in the end: the reader, the transport and
\* the fetch each resolve or reject.
LiveSpec == Spec /\ WF_vars(Continue)

(***************************************************************************)
(* Properties of the App and the uploader.                                 *)
(***************************************************************************)
InFlight(handler) == \E i \in DOMAIN calls : calls[i].handler = handler

\* C3: at most one call is outstanding; isLoading and isRemovingBackground
\* are never both true; while either is true neither Generate nor
\* Background Removal can be started.
C3_OneOutstandingCall ==
    /\ Len(calls) <= 1
    /\ ~(isLoading /\ isRemovingBackground)
    /\ (isLoading \/ isRemovingBackground) =>
          /\ ~ENABLED handleGenerateClick
          /\ ~ENABLED handleRemoveBackgroundClick

\* A generation awaits the remote call while an image and a style are set
\* that would otherwise allow both buttons.
C3_Witness ==
    /\ isLoading
    /\ Len(calls) = 1
    /\ calls[1].awaiting = "generateImageFromImage"
    /\ selectedStyle # ""
    /\ uploadedImage # Null
    /\ uploadedImage # calls[1].uploadedImage
    /\ BgRemovedCount(uploadedImage) < MaxBgRemoved

\* C4: the image a remove-background result replaces is the image the call
\* was issued against.
C4_ReplacesImageOfCall ==
    [][(isRemovingBackground /\ ~isRemovingBackground' /\ uploadedImage' # uploadedImage) =>
          \A i \in DOMAIN calls :
              calls[i].handler = "removeBackground" =>
                  uploadedImage = calls[i].uploadedImage]_vars

OffersInvalid(files) ==
    Len(files) > 0 /\ files[1].type \notin {"image/jpeg", "image/png"}

\* C9: offering a file that is neither image/jpeg nor image/png sets the
\* validation message and changes neither the uploaded image, the generated
\* image, the App error nor the calls in flight.
C9_InvalidFileRejected ==
    [][\A files \in FileLists :
          (OffersInvalid(files) /\ (handleDrop(files) \/ onInputChange(files))) =>
              /\ uploaderError' = InvalidFileType
              /\ UNCHANGED <<uploadedImage, generatedImage, error, calls,
                             isLoading, isRemovingBackground>>]_vars

\* The validation message is shown beside an uploaded image, a generated
\* image and an App error that an invalid offer left in place.
C9_Witness ==
    /\ uploaderError = InvalidFileType
    /\ uploadedImage # Null
    /\ generatedImage # Null
    /\ error # Null

\* C10: a loading flag is true exactly while its handler is in flight and
\* is cleared in the end; a failure is caught: it sets the App error,
\* clears the flags and leaves an image to start the next operation on.
C10_FlagFollowsCall ==
    /\ [](isLoading <=> InFlight("generate"))
    /\ [](isRemovingBackground <=> InFlight("removeBackground"))
    /\ isLoading ~> ~isLoading
    /\ isRemovingBackground ~> ~isRemovingBackground
    /\ [][consoleOut' # <<>> =>
            /\ error' # Null
            /\ ~isLoading' /\ ~isRemovingBackground'
            /\ uploadedImage' # Null]_vars

\* A remote failure was caught and logged, and the flags are clear.
C10_Witness ==
    /\ consoleOut # <<>>
    /\ error = [message |-> FailedRemove]
    /\ ~isLoading /\ ~isRemovingBackground
    /\ calls = <<>>

\* The messages the service functions and the handlers word themselves.
GenericMessages ==
    {FailedGenerate, FailedRemove, UnknownGenerate, UnknownRemove,
     "Invalid style selected.", "Please upload an image first.",
     "Please upload an image and select a style."}

\* What an underlying failure says of itself: a transport rejection, a
\* malformed response, a response without an image, a failed decoding.
FailureDetails ==
    TransportErrors \cup {TypeErrorNoCandidate, NoImageGenerate, NoImageRemove,
                          FetchTypeError, ReaderErrorEvent}

\* C11: the App error is one of the fixed generic messages; the detail of
\* the underlying transport, remote or decoding error is never the App
\* error.
C11_GenericErrorMessage ==
    error # Null =>
        /\ error.message \in GenericMessages
        /\ error.message \notin FailureDetails

InFlightNext(handler) == \E i \in DOMAIN calls' : calls'[i].handler = handler

\* The step is a valid upload: an offered JPEG or PNG becomes current.
IsValidUpload ==
    /\ uploadedImage' \in OfferedFiles
    /\ uploadedImage'.type \in {"image/jpeg", "image/png"}
    /\ uploaderError' = Null
    /\ calls' = calls

\* The step is the successful end of a remove-background call: its decoded
\* result becomes current.
IsRemoveBackgroundSuccess ==
    /\ isRemovingBackground /\ ~isRemovingBackground'
    /\ consoleOut' = <<>>
    /\ error' = error
    /\ \E i \in DOMAIN calls :
          /\ calls[i].handler = "removeBackground"
          /\ calls[i].awaiting = "base64ToFile"
          /\ IsBase64(calls[i].processedData)
          /\ uploadedImage' = File(<<"bg_removed_">> \o calls[i].uploadedImage.name,
                                   "image/png", Base64Decode(calls[i].processedData))

\* C12: the uploaded image changes only in a valid upload or in the
\* successful end of a remove-background call; a failed call leaves it as it
\* was, and no step of a transform call changes it.
C12_ImageChangesOnlyOnSuccess ==
    [][/\ uploadedImage' # uploadedImage => IsValidUpload \/ IsRemoveBackgroundSuccess
       /\ consoleOut' # <<>> => uploadedImage' = uploadedImage
       /\ isLoading' # isLoading => uploadedImage' = uploadedImage
       /\ ((InFlight("generate") \/ InFlightNext("generate")) /\ calls' # calls) =>
              uploadedImage' = uploadedImage]_vars

\* A background removal succeeded, and a later one failed in the conversion
\* and left the installed image in place.
C12_Witness ==
    /\ error = [message |-> FetchTypeError]
    /\ consoleOut # <<>>
    /\ uploadedImage # Null
    /\ BgRemovedCount(uploadedImage) = 1
    /\ calls = <<>>

SupportedTypes == {"image/jpeg", "image/png"}

\* C13: the uploaded image is absent or of type image/jpeg or image/png;
\* an image installed by a background removal is of type image/png; every
\* remote call is sent with mimeType image/jpeg or image/png.
C13_OnlySupportedTypes ==
    /\ uploadedImage # Null => uploadedImage.type \in SupportedTypes
    /\ (uploadedImage # Null /\ BgRemovedCount(uploadedImage) > 0) =>
          uploadedImage.type = "image/png"
    /\ \A i \in DOMAIN calls :
          /\ calls[i].uploadedImage.type \in SupportedTypes
          /\ "mimeType" \in DOMAIN calls[i] => calls[i].mimeType \in SupportedTypes

\* The image a background removal installed is sent to the remote model as
\* image/png, after an offer of an unsupported file was turned down.
C13_Witness ==
    /\ uploaderError = InvalidFileType
    /\ Len(calls) = 1
    /\ calls[1].awaiting = "removeImageBackground"
    /\ BgRemovedCount(calls[1].uploadedImage) = 1
    /\ calls[1].mimeType = "image/png"
    /\ uploadedImage = calls[1].uploadedImage

\* C14: a generated image that is held was produced by a transform call
\* whose input is the currently uploaded image: a generated image is only
\* installed by a call issued against the current image, and a change of
\* the uploaded image leaves no generated image.
C14_GeneratedFromCurrentImage ==
    [][/\ (generatedImage' # Null /\ generatedImage' # generatedImage) =>
              \A i \in DOMAIN calls :
                  calls[i].handler = "generate" =>
                      calls[i].uploadedImage = uploadedImage
       /\ uploadedImage' # uploadedImage => generatedImage' = Null]_vars

====
